---- MODULE Spec2Model ----
(***************************************************************************)
(* A model of blockchain.go: the Blockchain ledger kept in a bolt bucket   *)
(* (CreateBlockchain, AddBlock), its BlockchainIterator (Iterator, Next,   *)
(* IterateBlockchain) and the UTXO scan (FindUnspendTransaction,           *)
(* FindUTXO).                                                              *)
(*                                                                         *)
(* The bolt store is modelled by what its API guarantees: View and Update  *)
(* run one transaction each, an Update's Puts become durable together at   *)
(* commit or not at all, and one Update runs at a time.  A value returned  *)
(* by Get is taken as a value (a copy of the bytes).                       *)
(***************************************************************************)
EXTENDS Integers, Sequences, FiniteSets, TLC

\* ------------------------------------------------------------------ bounds
\* goroutines that may use one Blockchain value at the same time
NumProcs == 2
\* blocks NewBlock may build in one behaviour
MaxBlocks == 3
\* transactions handed to AddBlock in one behaviour of the UTXO specification
MaxTx == 2
\* outputs of one such transaction
MaxOut == 2

Procs == 1 .. NumProcs
Main == 1

\* ------------------------------------------------------------------ values
\* the empty byte slice (nil): genesis' PrevBlockHash, a missing key's value
EmptyHash == 0
\* no iterator has been created by the goroutine
NoIter == -1

Addresses == {"A", "B"}
GenesisAddress == "G"

TXoutput(to) == [To |-> to]
TXinput(txid, vout, sig) == [TXid |-> txid, Voutindex |-> vout, Sig |-> sig]
Transaction(id, in, out, cb) == [ID |-> id, In |-> in, Out |-> out, Coinbase |-> cb]

\* Output.CanBeUnlockedWith(address)
CanBeUnlockedWith(output, address) == output.To = address
\* Input.CanUnlockOutputWith(address)
CanUnlockOutputWith(input, address) == input.Sig = address
\* Transaction.IsCoinbase()
IsCoinbase(tx) == tx.Coinbase

Block(hash, prev, txs) == [Hash |-> hash, PrevBlockHash |-> prev, Transactions |-> txs]
NoBlock == Block(EmptyHash, EmptyHash, <<>>)

\* GenesisBlock(): a fixed block with an empty PrevBlockHash
GenesisHash == 1
GenesisTx == Transaction(0, <<>>, <<TXoutput(GenesisAddress)>>, TRUE)
GenesisBlock == Block(GenesisHash, EmptyHash, <<GenesisTx>>)

\* NewBlock(prevHash, txs): hash is the content-derived hash the factory computed
NewBlock(prevHash, txs, hash) == Block(hash, prevHash, txs)

VARIABLES
    bucket,     \* durable: the "blocks" bucket exists
    store,      \* durable: block hash -> stored block (Serialize/Deserialize are lossless)
    latest,     \* durable: value under the reserved key "latest"
    open,       \* a process is running and holds a *Blockchain
    topHash,    \* Blockchain.topHash
    pc,         \* per goroutine: where it is inside AddBlock / IterateBlockchain
    tophash,    \* per goroutine: AddBlock's local tophash
    newBlock,   \* per goroutine: AddBlock's local newBlock
    writer,     \* the goroutine inside an Update transaction (0: none)
    it,         \* per goroutine: BlockchainIterator.currentHash, or NoIter
    itHead,     \* per goroutine: the hash the iterator was created at
    itBase,     \* per goroutine: the value under "latest" when its iterator was created
    seen,       \* per goroutine: hashes of the blocks the iterator returned, in order
    walk,       \* per goroutine: its IterateBlockchain walk ("none", "running", "done") and the
                \* number of committed appends when it started
    last,       \* per goroutine: record of its last AddBlock call
    panicked,   \* why the process died ("" while none did)
    nextHash,   \* the next hash the block factory produces
    nextTx,     \* the next transaction id a caller uses
    nCommitted, \* AddBlock write transactions committed since genesis
    utxo,       \* the last FindUTXO / FindUnspendTransaction call and its result
    utxoPrev,   \* the FindUTXO call before it, when no AddBlock came between the two
    perIter     \* the build gives a range loop a fresh variable per iteration (Go >= 1.22)

durable == <<bucket, store, latest>>
volatile == <<open, topHash, pc, tophash, newBlock, writer, it, itHead, itBase, seen, walk>>
ghost == <<last, panicked, nextHash, nextTx, nCommitted, utxo, utxoPrev, perIter>>
vars == <<bucket, store, latest, open, topHash, pc, tophash, newBlock, writer,
          it, itHead, itBase, seen, walk, last, panicked, nextHash, nextTx, nCommitted, utxo, utxoPrev, perIter>>

NoCall == [op |-> "none", pre |-> EmptyHash, preLatest |-> EmptyHash, hash |-> EmptyHash,
           committed |-> FALSE, returned |-> FALSE, failed |-> FALSE]
NoWalk == [st |-> "none", n |-> 0]
NoQuery == [op |-> "none", addr |-> "", pre |-> <<>>, txs |-> <<>>, spent |-> {}, outs |-> <<>>]

\* a write that keeps the written key only
PutAlone(s, hash, block) == [h \in {hash} |-> block]

\* bucket.Put(key, value) on the block keys
Put(s, hash, block) ==
    [h \in DOMAIN s \cup {hash} |-> IF h = hash THEN block ELSE s[h]]

\* a lookup that yields the genesis block for a key that is not stored
GetOrGenesis(s, hash) == IF hash \in DOMAIN s THEN s[hash] ELSE GenesisBlock

\* bucket.Get(key): nil for a key that is not stored
Get(s, hash) == IF hash \in DOMAIN s THEN s[hash] ELSE NoBlock

\* Deserialize(serializedBlock) fails fatally when the lookup returned no value
DeserializeFails(serializedBlock) == serializedBlock = NoBlock

\* the state a freshly started process holds
Fresh ==
    /\ pc' = [p \in Procs |-> "idle"]
    /\ tophash' = [p \in Procs |-> EmptyHash]
    /\ newBlock' = [p \in Procs |-> NoBlock]
    /\ writer' = 0
    /\ it' = [p \in Procs |-> NoIter]
    /\ itHead' = [p \in Procs |-> EmptyHash]
    /\ itBase' = [p \in Procs |-> EmptyHash]
    /\ seen' = [p \in Procs |-> <<>>]
    /\ walk' = [p \in Procs |-> NoWalk]
    /\ last' = [p \in Procs |-> NoCall]
    /\ utxo' = NoQuery
    /\ utxoPrev' = NoQuery

Init ==
    /\ bucket = FALSE
    /\ store = <<>>
    /\ latest = EmptyHash
    /\ open = FALSE
    /\ topHash = EmptyHash
    /\ pc = [p \in Procs |-> "idle"]
    /\ tophash = [p \in Procs |-> EmptyHash]
    /\ newBlock = [p \in Procs |-> NoBlock]
    /\ writer = 0
    /\ it = [p \in Procs |-> NoIter]
    /\ itHead = [p \in Procs |-> EmptyHash]
    /\ itBase = [p \in Procs |-> EmptyHash]
    /\ seen = [p \in Procs |-> <<>>]
    /\ walk = [p \in Procs |-> NoWalk]
    /\ last = [p \in Procs |-> NoCall]
    /\ panicked = ""
    /\ nextHash = GenesisHash + 1
    /\ nextTx = 1
    /\ nCommitted = 0
    /\ utxo = NoQuery
    /\ utxoPrev = NoQuery
    /\ perIter \in BOOLEAN

\* a panic ends the process: what it held in memory is gone, the store stays
Panic(why) ==
    /\ open' = FALSE
    /\ panicked' = why

\* ---------------------------------------------------------- CreateBlockchain
\* a bootstrap that takes genesis for the head whatever the store holds
BootGenesis == GenesisBlock.Hash

\* the value CreateBlockchain leaves in tophash: genesis' hash on a new store,
\* the value under "latest" on an existing one
BootHead == IF bucket THEN latest ELSE GenesisBlock.Hash

CreateBlockchain ==
    /\ ~open
    /\ IF bucket
       THEN UNCHANGED durable
       ELSE /\ bucket' = TRUE
            /\ store' = Put(store, GenesisBlock.Hash, GenesisBlock)
            /\ latest' = GenesisBlock.Hash
    /\ topHash' = BootHead
    /\ open' = TRUE
    /\ panicked' = ""
    /\ Fresh
    /\ UNCHANGED <<nextHash, nextTx, nCommitted, perIter>>

\* lines 38-41, 79-81: the store cannot be opened or the transaction cannot commit
CreateBlockchainFail ==
    /\ ~open
    /\ panicked' = "CreateBlockchain"
    /\ UNCHANGED <<durable, open, topHash, pc, tophash, newBlock, writer, it, itHead, itBase, seen, walk>>
    /\ UNCHANGED <<last, nextHash, nextTx, nCommitted, utxo, utxoPrev, perIter>>

\* the program ends (nothing closes the store; the process just exits)
Exit ==
    /\ open
    /\ \A p \in Procs : pc[p] = "idle"
    /\ open' = FALSE
    /\ UNCHANGED <<durable, topHash, pc, tophash, newBlock, writer, it, itHead, itBase, seen, walk>>
    /\ UNCHANGED ghost

\* ------------------------------------------------------------------ AddBlock
\* the transactions a caller of the ledger specifications hands to AddBlock
LedgerTxs(id) == {<<Transaction(id, <<>>, <<TXoutput("A")>>, TRUE)>>}

\* a Get of a key the bucket does not hold
ReadMissingKey == EmptyHash

\* a read of the in-memory copy of the head
ReadTopHash == topHash

\* a read that always yields the first block's hash
ReadFirstBlock == GenesisHash

\* line 97: the hash AddBlock builds on is the one stored under "latest"
ReadLatest == latest

\* lines 95-105: the View transaction reads the durable head, NewBlock builds on it
AddBlockView(p, txs) ==
    /\ open /\ pc[p] = "idle"
    /\ nextHash <= MaxBlocks + 1
    /\ tophash' = [tophash EXCEPT ![p] = ReadLatest]
    /\ newBlock' = [newBlock EXCEPT ![p] = NewBlock(ReadLatest, txs, nextHash)]
    /\ nextHash' = nextHash + 1
    /\ nextTx' = nextTx + Len(txs)
    /\ pc' = [pc EXCEPT ![p] = "built"]
    /\ last' = [last EXCEPT ![p] = [op |-> "AddBlock", pre |-> topHash, preLatest |-> latest,
                                    hash |-> nextHash, committed |-> FALSE, returned |-> FALSE,
                                    failed |-> FALSE]]
    /\ utxo' = NoQuery
    /\ utxoPrev' = NoQuery
    /\ UNCHANGED <<durable, open, topHash, writer, it, itHead, itBase, seen, walk>>
    /\ UNCHANGED <<panicked, nCommitted, perIter>>

\* line 123: the in-memory head after the Update closure ran
HeadInClosure(p) == newBlock[p].Hash

\* lines 108-125: the Update closure runs under bolt's writer lock: two Puts into the
\* write transaction, then the assignment to bc.topHash; nothing is durable yet
AddBlockUpdate(p) ==
    /\ open /\ pc[p] = "built" /\ writer = 0
    /\ writer' = p
    /\ topHash' = HeadInClosure(p)
    /\ pc' = [pc EXCEPT ![p] = "intx"]
    /\ UNCHANGED <<durable, open, tophash, newBlock, it, itHead, itBase, seen, walk>>
    /\ UNCHANGED ghost

\* lines 108, 128-132: Update's result is dropped, err is still the View's nil
AddBlockReturns(updateErr) == TRUE

\* the block rebuilt on the head the write transaction finds
BlockOnCurrentHead(p) == NewBlock(latest, newBlock[p].Transactions, newBlock[p].Hash)

\* line 111: the block the closure puts is the one built before the transaction began
BlockToPut(p) == newBlock[p]

\* line 126: the closure returned nil and the transaction commits: both Puts are durable
AddBlockCommit(p) ==
    /\ open /\ pc[p] = "intx" /\ writer = p
    /\ store' = Put(store, BlockToPut(p).Hash, BlockToPut(p))
    /\ latest' = BlockToPut(p).Hash
    /\ writer' = 0
    /\ pc' = [pc EXCEPT ![p] = "idle"]
    /\ last' = [last EXCEPT ![p].committed = TRUE, ![p].returned = AddBlockReturns(FALSE)]
    /\ nCommitted' = nCommitted + 1
    /\ UNCHANGED <<bucket, open, topHash, tophash, newBlock, it, itHead, itBase, seen, walk>>
    /\ UNCHANGED <<panicked, nextHash, nextTx, utxo, utxoPrev, perIter>>

\* lines 100-102: the View transaction failed: panic
AddBlockViewFail(p) ==
    /\ open /\ pc[p] = "idle"
    /\ Panic("AddBlock: View")
    /\ last' = [last EXCEPT ![p] = [op |-> "AddBlock", pre |-> topHash, preLatest |-> latest,
                                    hash |-> EmptyHash, committed |-> FALSE, returned |-> FALSE,
                                    failed |-> TRUE]]
    /\ UNCHANGED <<durable, topHash, pc, tophash, newBlock, writer, it, itHead, itBase, seen, walk>>
    /\ UNCHANGED <<nextHash, nextTx, nCommitted, utxo, utxoPrev, perIter>>

\* lines 111-120: a Put failed inside the closure: panic before line 123, bolt rolls back
AddBlockPutFail(p) ==
    /\ open /\ pc[p] = "built" /\ writer = 0
    /\ Panic("AddBlock: Put")
    /\ last' = [last EXCEPT ![p].failed = TRUE]
    /\ UNCHANGED <<durable, topHash, pc, tophash, newBlock, writer, it, itHead, itBase, seen, walk>>
    /\ UNCHANGED <<nextHash, nextTx, nCommitted, utxo, utxoPrev, perIter>>

\* line 108: the commit failed: bolt rolls the Puts back and Update returns the error,
\* which the call drops; line 128 tests the View's err and line 132 returns true
AddBlockCommitFail(p) ==
    /\ open /\ pc[p] = "intx" /\ writer = p
    /\ writer' = 0
    /\ IF AddBlockReturns(TRUE)
       THEN /\ pc' = [pc EXCEPT ![p] = "idle"]
            /\ last' = [last EXCEPT ![p].returned = TRUE, ![p].failed = TRUE]
            /\ UNCHANGED <<open, panicked>>
       ELSE /\ Panic("AddBlock: Update")
            /\ last' = [last EXCEPT ![p].failed = TRUE]
            /\ UNCHANGED pc
    /\ UNCHANGED <<durable, topHash, tophash, newBlock, it, itHead, itBase, seen, walk>>
    /\ UNCHANGED <<nextHash, nextTx, nCommitted, utxo, utxoPrev, perIter>>

\* ------------------------------------------------------------------ Iterator
\* lines 140-142
Iterator(p) ==
    /\ open /\ pc[p] = "idle"
    /\ it' = [it EXCEPT ![p] = topHash]
    /\ itHead' = [itHead EXCEPT ![p] = topHash]
    /\ itBase' = [itBase EXCEPT ![p] = latest]
    /\ seen' = [seen EXCEPT ![p] = <<>>]
    /\ walk' = [walk EXCEPT ![p] = NoWalk]
    /\ UNCHANGED <<durable, open, topHash, pc, tophash, newBlock, writer>>
    /\ UNCHANGED ghost

\* line 164: the cursor after a block was returned
Advance(block) == block.PrevBlockHash

\* lines 147-167: the block under the cursor is returned, the cursor moves to its parent
Next(p) ==
    /\ open /\ pc[p] = "idle" /\ it[p] # NoIter
    /\ ~DeserializeFails(Get(store, it[p]))
    /\ LET block == Get(store, it[p]) IN
        /\ seen' = [seen EXCEPT ![p] = Append(@, block.Hash)]
        /\ it' = [it EXCEPT ![p] = Advance(block)]
    /\ UNCHANGED <<durable, open, topHash, pc, tophash, newBlock, writer, itHead, itBase, walk>>
    /\ UNCHANGED ghost

\* lines 155-156: Get returns nil for a cursor the bucket does not hold and
\* Deserialize(nil) fails fatally: no block is returned, the cursor is not advanced
NextFatal(p) ==
    /\ open /\ pc[p] = "idle" /\ it[p] # NoIter
    /\ DeserializeFails(Get(store, it[p]))
    /\ Panic("Next: no block")
    /\ UNCHANGED <<durable, topHash, pc, tophash, newBlock, writer, it, itHead, itBase, seen, walk>>
    /\ UNCHANGED <<last, nextHash, nextTx, nCommitted, utxo, utxoPrev, perIter>>

\* --------------------------------------------------------- IterateBlockchain
\* line 173
IterateBlockchain(p) ==
    /\ open /\ pc[p] = "idle"
    /\ it' = [it EXCEPT ![p] = topHash]
    /\ itHead' = [itHead EXCEPT ![p] = topHash]
    /\ itBase' = [itBase EXCEPT ![p] = latest]
    /\ seen' = [seen EXCEPT ![p] = <<>>]
    /\ walk' = [walk EXCEPT ![p] = [st |-> "running", n |-> nCommitted]]
    /\ pc' = [pc EXCEPT ![p] = "iterate"]
    /\ UNCHANGED <<durable, open, topHash, tophash, newBlock, writer>>
    /\ UNCHANGED ghost

\* a stop test on the block's own hash
AtEmptyHash(block) == block.Hash = EmptyHash

\* line 179: the loop stops at the block whose PrevBlockHash is empty
AtGenesis(block) == block.PrevBlockHash = EmptyHash

\* lines 174-182: one turn of the loop
IterateStep(p) ==
    /\ open /\ pc[p] = "iterate"
    /\ ~DeserializeFails(Get(store, it[p]))
    /\ LET block == Get(store, it[p]) IN
        /\ seen' = [seen EXCEPT ![p] = Append(@, block.Hash)]
        /\ it' = [it EXCEPT ![p] = Advance(block)]
        /\ pc' = [pc EXCEPT ![p] = IF AtGenesis(block) THEN "idle" ELSE "iterate"]
        /\ walk' = [walk EXCEPT ![p].st = IF AtGenesis(block) THEN "done" ELSE "running"]
    /\ UNCHANGED <<durable, open, topHash, tophash, newBlock, writer, itHead, itBase>>
    /\ UNCHANGED ghost

\* line 175 with a cursor the bucket does not hold
IterateFatal(p) ==
    /\ open /\ pc[p] = "iterate"
    /\ DeserializeFails(Get(store, it[p]))
    /\ Panic("Next: no block")
    /\ UNCHANGED <<durable, topHash, pc, tophash, newBlock, writer, it, itHead, itBase, seen, walk>>
    /\ UNCHANGED <<last, nextHash, nextTx, nCommitted, utxo, utxoPrev, perIter>>

\* ------------------------------------------------------ FindUnspendTransaction
\* the hashes of the blocks a loop of Next() calls returns from cursor h until a block
\* has an empty PrevBlockHash (lines 199-202, 249-251); EmptyHash stands last when
\* the loop meets a cursor the bucket does not hold
RECURSIVE ChainFrom(_, _)
ChainFrom(s, h) ==
    IF Get(s, h) = NoBlock THEN <<EmptyHash>>
    ELSE IF AtGenesis(Get(s, h)) THEN <<h>>
    ELSE <<h>> \o ChainFrom(s, Advance(Get(s, h)))

\* the blocks bcIterator.Next() returns from cursor h until one has an empty
\* PrevBlockHash (lines 199-202, 249-251)
WalkBlocks(s, h) == [i \in 1 .. Len(ChainFrom(s, h)) |-> Get(s, ChainFrom(s, h)[i])]

\* the walk meets a hash the bucket does not hold
WalkFatal(s, h) == ChainFrom(s, h)[Len(ChainFrom(s, h))] = EmptyHash

\* line 204: the transactions in the order the scan meets them: blocks newest to
\* oldest, each block's transactions in stored order
RECURSIVE ScanOrder(_)
ScanOrder(blocks) ==
    IF blocks = <<>> THEN <<>>
    ELSE Head(blocks).Transactions \o ScanOrder(Tail(blocks))

\* lines 211-219: output outIdx of txID is listed in spendTxos[txID]
IsSpent(spendTxos, txID, outIdx) == <<txID, outIdx>> \in spendTxos

\* a scan that records a transaction for its first qualifying output only
QualifyingOnce(tx, spendTxos, address) ==
    {i \in 0 .. Len(tx.Out) - 1 :
        /\ ~IsSpent(spendTxos, tx.ID, i)
        /\ CanBeUnlockedWith(tx.Out[i + 1], address)
        /\ \A j \in 0 .. i - 1 :
                IsSpent(spendTxos, tx.ID, j) \/ ~CanBeUnlockedWith(tx.Out[j + 1], address)}

\* lines 209-230: the positions (from 0) of tx's outputs that are not listed as
\* spent and can be unlocked with address; tx is appended once for each
Qualifying(tx, spendTxos, address) ==
    {i \in 0 .. Len(tx.Out) - 1 :
        /\ ~IsSpent(spendTxos, tx.ID, i)
        /\ CanBeUnlockedWith(tx.Out[i + 1], address)}

\* lines 233-244: the (TXid, Voutindex) pairs tx's inputs add to spendTxos
SpentBy(tx, address) ==
    IF IsCoinbase(tx) THEN {}
    ELSE {<<tx.In[k].TXid, tx.In[k].Voutindex>> :
            k \in {j \in 1 .. Len(tx.In) : CanUnlockOutputWith(tx.In[j], address)}}

\* a scan that adds a transaction's inputs to spendTxos before it scans its outputs
ScanTxInputsFirst(acc, tx, address) ==
    [unsepentTXs |-> acc.unsepentTXs \o
                        [k \in 1 .. Cardinality(Qualifying(tx, acc.spendTxos \cup SpentBy(tx, address),
                                                           address)) |-> tx],
     spendTxos |-> acc.spendTxos \cup SpentBy(tx, address)]

\* lines 204-246: one transaction: its outputs are scanned against spendTxos as it
\* stands, then its inputs are added
ScanTx(acc, tx, address) ==
    [unsepentTXs |-> acc.unsepentTXs \o
                        [k \in 1 .. Cardinality(Qualifying(tx, acc.spendTxos, address)) |-> tx],
     spendTxos |-> acc.spendTxos \cup SpentBy(tx, address)]

RECURSIVE ScanTxs(_, _, _)
ScanTxs(acc, txs, address) ==
    IF txs = <<>> THEN acc
    ELSE ScanTxs(ScanTx(acc, Head(txs), address), Tail(txs), address)

\* lines 189-255, on the chain that starts at head
FindUnspendTransaction(s, head, address) ==
    ScanTxs([unsepentTXs |-> <<>>, spendTxos |-> {}],
            ScanOrder(WalkBlocks(s, head)), address).unsepentTXs

\* lines 197, 241: spendTxos when the scan of the chain that starts at head has ended
SpendTxosAtEnd(s, head, address) ==
    ScanTxs([unsepentTXs |-> <<>>, spendTxos |-> {}],
            ScanOrder(WalkBlocks(s, head)), address).spendTxos

\* ------------------------------------------------------------------ FindUTXO
UTXO(tx, idx) == [TX |-> tx.ID, Idx |-> idx, To |-> tx.Out[idx + 1].To]

\* lines 268-272: what the pointer &output appended at position idx shows once the
\* loop over tx.Out has ended: that output when each iteration has its own variable,
\* the last output of tx when the loop has one variable
Pointee(tx, idx) == IF perIter THEN UTXO(tx, idx) ELSE UTXO(tx, Len(tx.Out) - 1)

\* lines 268-274: every output of tx that can be unlocked with addr is appended
OutputsFor(tx, addr) ==
    LET idxs == SelectSeq([i \in 1 .. Len(tx.Out) |-> i - 1],
                          LAMBDA i : CanBeUnlockedWith(tx.Out[i + 1], addr))
    IN [k \in 1 .. Len(idxs) |-> Pointee(tx, idxs[k])]

RECURSIVE CollectOutputs(_, _)
CollectOutputs(txs, addr) ==
    IF txs = <<>> THEN <<>>
    ELSE OutputsFor(Head(txs), addr) \o CollectOutputs(Tail(txs), addr)

\* a result slice that outlives the call: the outputs are appended to the last result
FindUTXOAppended(s, head, addr) ==
    utxo.outs \o CollectOutputs(FindUnspendTransaction(s, head, addr), addr)

\* lines 260-278: UTXOs starts empty in each call (line 261)
FindUTXOResult(s, head, addr) == CollectOutputs(FindUnspendTransaction(s, head, addr), addr)

FindUTXO(p, addr) ==
    /\ open /\ pc[p] = "idle"
    /\ ~WalkFatal(store, topHash)
    /\ utxo' = [op |-> "FindUTXO", addr |-> addr,
                pre |-> <<store, latest, topHash>>,
                txs |-> [k \in 1 .. Len(FindUnspendTransaction(store, topHash, addr)) |->
                            FindUnspendTransaction(store, topHash, addr)[k].ID],
                spent |-> SpendTxosAtEnd(store, topHash, addr),
                outs |-> FindUTXOResult(store, topHash, addr)]
    /\ utxoPrev' = utxo
    /\ UNCHANGED <<durable, volatile>>
    /\ UNCHANGED <<last, panicked, nextHash, nextTx, nCommitted, perIter>>

\* the transactions a caller of the UTXO specification hands to AddBlock
OutputLists == UNION {[1 .. n -> {TXoutput(a) : a \in Addresses}] : n \in 1 .. MaxOut}

InputLists ==
    {<<>>} \cup {<<TXinput(t, v, a)>> : t \in 1 .. MaxTx, v \in 0 .. MaxOut - 1, a \in Addresses}

TxsWithID(id) ==
    {Transaction(id, in, out, cb) :
        in \in InputLists, out \in OutputLists, cb \in BOOLEAN} \ 
    {Transaction(id, <<>>, out, FALSE) : out \in OutputLists}

UTXOTxs(id) ==
    IF id > MaxTx THEN {}
    ELSE {<<t>> : t \in TxsWithID(id)} \cup
         (IF id + 1 > MaxTx THEN {}
          ELSE {<<t, u>> : t \in TxsWithID(id), u \in TxsWithID(id + 1)})

\* ------------------------------------------------------------ specifications
\* one goroutine, a store that does not fail
Step ==
    \/ CreateBlockchain
    \/ Exit
    \/ \E txs \in LedgerTxs(nextTx) : AddBlockView(Main, txs)
    \/ AddBlockUpdate(Main)
    \/ AddBlockCommit(Main)
    \/ Iterator(Main)
    \/ Next(Main)
    \/ NextFatal(Main)
    \/ IterateBlockchain(Main)
    \/ IterateStep(Main)

Spec == Init /\ [][Step]_vars

\* one goroutine, a store whose transactions may fail
StepFault ==
    \/ Step
    \/ CreateBlockchainFail
    \/ AddBlockViewFail(Main)
    \/ AddBlockPutFail(Main)
    \/ AddBlockCommitFail(Main)
    \/ IterateFatal(Main)

SpecFault == Init /\ [][StepFault]_vars

\* several goroutines call AddBlock on one *Blockchain; the store's transactions may fail
StepConc ==
    \/ CreateBlockchain
    \/ \E p \in Procs :
        \/ \E txs \in LedgerTxs(nextTx) : AddBlockView(p, txs)
        \/ AddBlockUpdate(p)
        \/ AddBlockCommit(p)
        \/ AddBlockViewFail(p)
        \/ AddBlockPutFail(p)
        \/ AddBlockCommitFail(p)

SpecConc == Init /\ [][StepConc]_vars

\* one goroutine, a store that does not fail, any transactions
StepUTXO ==
    \/ CreateBlockchain
    \/ \E txs \in UTXOTxs(nextTx) : AddBlockView(Main, txs)
    \/ AddBlockUpdate(Main)
    \/ AddBlockCommit(Main)
    \/ \E addr \in Addresses : FindUTXO(Main, addr)

SpecUTXO == Init /\ [][StepUTXO]_vars

\* one goroutine calls AddBlock while the others walk the chain with iterators of
\* their own; the store does not fail
StepIter ==
    \/ CreateBlockchain
    \/ \E txs \in LedgerTxs(nextTx) : AddBlockView(Main, txs)
    \/ AddBlockUpdate(Main)
    \/ AddBlockCommit(Main)
    \/ \E p \in Procs \ {Main} :
        \/ Iterator(p)
        \/ Next(p)
        \/ NextFatal(p)

SpecIter == Init /\ [][StepIter]_vars

\* a goroutine's loop keeps running: every enabled turn is eventually taken
SpecWalk == Spec /\ WF_vars(IterateStep(Main))

\* ------------------------------------------------------------------- claims
Returned(p) == last[p].op = "AddBlock" /\ last[p].returned /\ pc[p] = "idle"

\* C1 (append monotonicity): once AddBlock has returned true, the block stored under
\* the new head has PrevBlockHash equal to the head just before the call, and an
\* iterator created at the new head returns the new head and then, on its second
\* Next(), the pre-append head block.
C1_AppendMonotonicity ==
    \A p \in Procs :
        Returned(p) =>
            /\ topHash = last[p].hash
            /\ topHash \in DOMAIN store
            /\ store[topHash].PrevBlockHash = last[p].pre
            /\ (it[p] # NoIter /\ itHead[p] = last[p].hash /\ Len(seen[p]) >= 1)
                    => seen[p][1] = last[p].hash
            /\ (it[p] # NoIter /\ itHead[p] = last[p].hash /\ Len(seen[p]) >= 2)
                    => seen[p][2] = last[p].pre

C1_Witness ==
    \E p \in Procs :
        /\ Returned(p) /\ nCommitted >= 2
        /\ it[p] # NoIter /\ itHead[p] = last[p].hash
        /\ Len(seen[p]) >= 2 /\ seen[p][2] = last[p].pre

\* the safety half of C2
WalkSafe ==
    \A p \in Procs :
        /\ walk[p].st = "running" =>
                /\ it[p] # EmptyHash /\ it[p] \in DOMAIN store
                /\ Len(seen[p]) <= walk[p].n
        /\ walk[p].st = "done" =>
                /\ Len(seen[p]) = walk[p].n + 1
                /\ \A i, j \in 1 .. Len(seen[p]) : i # j => seen[p][i] # seen[p][j]
                /\ seen[p][Len(seen[p])] = GenesisBlock.Hash
                /\ store[seen[p][Len(seen[p])]].PrevBlockHash = EmptyHash
                /\ \A i \in 1 .. Len(seen[p]) - 1 : store[seen[p][i]].PrevBlockHash # EmptyHash
        \* the same loop inside FindUnspendTransaction, started between calls
        /\ (open /\ \A q \in Procs : pc[q] = "idle") =>
                /\ ~WalkFatal(store, topHash)
                /\ Len(WalkBlocks(store, topHash)) = nCommitted + 1

\* C2 (traversal termination): on a chain of genesis plus N committed appends, the
\* walk from the head that calls Next() until the returned block has an empty
\* PrevBlockHash ends, has then returned exactly N+1 distinct blocks, the last one
\* genesis, and never calls Next() with an empty cursor.
C2_TraversalTermination ==
    /\ []WalkSafe
    /\ \A p \in Procs : (walk[p].st = "running") ~> (walk[p].st = "done")

C2_Witness ==
    \E p \in Procs : walk[p].st = "done" /\ walk[p].n >= 2 /\ Len(seen[p]) = walk[p].n + 1

GenesisLike == {h \in DOMAIN store : store[h].PrevBlockHash = EmptyHash}

EndsAtGenesis(h) ==
    LET c == ChainFrom(store, h) IN c[Len(c)] \in GenesisLike

\* C3 (genesis uniqueness): after bootstrap exactly one stored block has an empty
\* PrevBlockHash, and the backward walk from the head (the durable head, and the
\* in-memory head of an open ledger between calls) ends at that block.
C3_GenesisUniqueness ==
    bucket =>
        /\ Cardinality(GenesisLike) = 1
        /\ EndsAtGenesis(latest)
        /\ (open /\ \A p \in Procs : pc[p] = "idle") => EndsAtGenesis(topHash)

\* a re-opened store that holds appended blocks
C3_Witness ==
    /\ bucket /\ open /\ nCommitted >= 2
    /\ \A p \in Procs : last[p] = NoCall
    /\ Cardinality(DOMAIN store) >= 3
    /\ Cardinality(GenesisLike) = 1

\* C6 (in-memory head is the durable head): in every state of an open ledger,
\* the states inside an AddBlock call included, topHash equals the hash stored
\* under the reserved head key, so it never names a block whose write transaction
\* has not committed.
C6_HeadIsDurableHead == open => topHash = latest

\* C7 (state unchanged on failed append): once the write transaction of an AddBlock
\* call failed (a Put or the commit), topHash still has its pre-call value and
\* equals the durable head.
C7_FailedAppendKeepsHead ==
    \A p \in Procs :
        (last[p].op = "AddBlock" /\ last[p].failed) =>
            /\ topHash = last[p].pre
            /\ topHash = latest

\* C8 (a persistence failure is fatal): an AddBlock call whose read or write
\* transaction failed does not return true; a call that returned true has
\* committed its block and the head pointer.
C8_TrueOnlyIfCommitted ==
    \A p \in Procs :
        last[p].op = "AddBlock" =>
            /\ last[p].failed => ~last[p].returned
            /\ last[p].returned =>
                    /\ last[p].committed
                    /\ last[p].hash \in DOMAIN store

\* two finished AddBlock calls that read the same durable head and both committed
SameHeadAppends(p, q) ==
    /\ p # q
    /\ last[p].op = "AddBlock" /\ last[q].op = "AddBlock"
    /\ last[p].committed /\ last[q].committed
    /\ last[p].returned /\ last[q].returned
    /\ last[p].preLatest = last[q].preLatest

InChain(h, head) == \E i \in 1 .. Len(ChainFrom(store, head)) : ChainFrom(store, head)[i] = h

\* C9 (lost-append race): two concurrent AddBlock calls can both read the same
\* durable head, both commit and both return true; whenever that happens both
\* blocks are stored with that head as PrevBlockHash, and at most one of them is
\* reachable from the head by Next() steps: the other is orphaned.
C9_LostAppend ==
    \A p, q \in Procs :
        SameHeadAppends(p, q) =>
            /\ last[p].hash \in DOMAIN store /\ last[q].hash \in DOMAIN store
            /\ store[last[p].hash].PrevBlockHash = last[p].preLatest
            /\ store[last[q].hash].PrevBlockHash = last[q].preLatest
            /\ ~(InChain(last[p].hash, latest) /\ InChain(last[q].hash, latest))
            /\ latest = last[q].hash => ~InChain(last[p].hash, latest)

\* the interleaving exists: both returned true, the head is one block, the other is lost
C9_Witness ==
    \E p, q \in Procs :
        /\ SameHeadAppends(p, q)
        /\ latest = last[q].hash /\ topHash = last[q].hash
        /\ last[p].hash \in DOMAIN store
        /\ ~InChain(last[p].hash, latest)

\* C10 (chain integrity): every block reachable from the durable head is stored, and
\* each of them but genesis has a PrevBlockHash that is the hash of a stored block.
C10_ChainIntegrity ==
    bucket =>
        \A i \in 1 .. Len(ChainFrom(store, latest)) :
            LET h == ChainFrom(store, latest)[i] IN
                /\ h \in DOMAIN store
                /\ store[h].PrevBlockHash # EmptyHash => store[h].PrevBlockHash \in DOMAIN store

\* a chain grown by interleaved appends, one of which left an orphan
C10_Witness ==
    /\ bucket
    /\ Len(ChainFrom(store, latest)) >= 3
    /\ Cardinality(DOMAIN store) > Len(ChainFrom(store, latest))

\* the transactions of the chain under topHash, oldest first (chain order)
ChainOrder ==
    LET blocks == WalkBlocks(store, topHash)
    IN ScanOrder([i \in 1 .. Len(blocks) |-> blocks[Len(blocks) - i + 1]])

\* some input of the chain references output idx of transaction id
Referenced(id, idx) ==
    \E k \in 1 .. Len(ChainOrder) : \E n \in 1 .. Len(ChainOrder[k].In) :
        ChainOrder[k].In[n].TXid = id /\ ChainOrder[k].In[n].Voutindex = idx

\* tx has an input that references output idx of transaction id and unlocks with a
Spends(tx, id, idx, a) ==
    \E n \in 1 .. Len(tx.In) : tx.In[n] = TXinput(id, idx, a)

\* the last call was FindUTXO(a) on the present chain
Asked(a) == open /\ utxo.op = "FindUTXO" /\ utxo.addr = a

Returns(id, idx) == \E k \in 1 .. Len(utxo.outs) : utxo.outs[k].TX = id /\ utxo.outs[k].Idx = idx

\* T1 = ChainOrder[i] has the single output O0 to a; the ordinary transaction
\* T2 = ChainOrder[j], later in chain order, spends (T1.ID, 0) unlocking with a and
\* pays b at position m, which nothing references
SpendCase(i, j, m, a, b) ==
    /\ i < j /\ a # b
    /\ Len(ChainOrder[i].Out) = 1 /\ ChainOrder[i].Out[1].To = a
    /\ ~IsCoinbase(ChainOrder[j])
    /\ Spends(ChainOrder[j], ChainOrder[i].ID, 0, a)
    /\ m \in 1 .. Len(ChainOrder[j].Out) /\ ChainOrder[j].Out[m].To = b
    /\ ~Referenced(ChainOrder[j].ID, m - 1)

\* C4 (spend correctness): when T1 has the single output O0 to A and a transaction T2
\* later in chain order (a later block, or later in the same block) spends
\* (T1.ID, 0) unlocking with A and pays B, FindUTXO(A) does not contain O0 and
\* FindUTXO(B) contains T2's output to B.
C4_SpendCorrectness ==
    \A a, b \in Addresses : \A i, j \in 1 .. Len(ChainOrder) : \A m \in 1 .. MaxOut :
        SpendCase(i, j, m, a, b) =>
            /\ Asked(a) => ~Returns(ChainOrder[i].ID, 0)
            /\ Asked(b) => Returns(ChainOrder[j].ID, m - 1)

\* the hash of the block that holds transaction id
BlockOf(id) ==
    CHOOSE h \in DOMAIN store :
        \E n \in 1 .. Len(store[h].Transactions) : store[h].Transactions[n].ID = id

\* T1 = ChainOrder[i] has the two outputs O0 and O1, both to a; the ordinary
\* transaction T2 = ChainOrder[j], in a later block, spends (T1.ID, 0) unlocking
\* with a; nothing references O1
UnrelatedSpendCase(i, j, a) ==
    /\ i < j
    /\ BlockOf(ChainOrder[i].ID) # BlockOf(ChainOrder[j].ID)
    /\ Len(ChainOrder[i].Out) = 2
    /\ ChainOrder[i].Out[1].To = a /\ ChainOrder[i].Out[2].To = a
    /\ ~IsCoinbase(ChainOrder[j])
    /\ Spends(ChainOrder[j], ChainOrder[i].ID, 0, a)
    /\ ~Referenced(ChainOrder[i].ID, 1)

\* C5 (unspent survives unrelated spends): when T1 has outputs O0 and O1 to A and only
\* O0 is referenced by a later input that unlocks with A, FindUTXO(A) contains O1 and
\* does not contain the spent output O0.
C5_UnspentSurvives ==
    \A a \in Addresses : \A i, j \in 1 .. Len(ChainOrder) :
        (UnrelatedSpendCase(i, j, a) /\ Asked(a)) =>
            /\ Returns(ChainOrder[i].ID, 1)
            /\ ~Returns(ChainOrder[i].ID, 0)

\* the blocks a step stores that were not stored before it
NewlyStored == DOMAIN store' \ DOMAIN store

\* C11 (append-only store): no step changes or removes a stored block; a step that
\* commits an AddBlock write transaction stores exactly one new block, the first
\* bootstrap stores genesis, and no other step stores a block.
C11_AppendOnly ==
    [][/\ \A h \in DOMAIN store : h \in DOMAIN store' /\ store'[h] = store[h]
       /\ nCommitted' = nCommitted + 1 => Cardinality(NewlyStored) = 1
       /\ (~bucket /\ bucket') => NewlyStored = {GenesisBlock.Hash}
       /\ NewlyStored # {} => (nCommitted' = nCommitted + 1 \/ (~bucket /\ bucket'))
       /\ (bucket /\ nCommitted' = nCommitted) => store' = store]_vars

\* two appends were committed on top of genesis and all three blocks are stored
C11_Witness ==
    /\ bucket /\ open /\ nCommitted = 2
    /\ Cardinality(DOMAIN store) = 3
    /\ GenesisBlock.Hash \in DOMAIN store /\ store[GenesisBlock.Hash] = GenesisBlock
    /\ \E p \in Procs : last[p].op = "AddBlock" /\ last[p].committed

\* a step in which CreateBlockchain returns a ledger
Opens == ~open /\ open'

\* C12 (re-open reuses the chain): CreateBlockchain on a store that has the block
\* bucket stores no block, leaves the stored blocks and the value under "latest"
\* as they are and sets topHash to that value; the genesis block is stored only by
\* the open that finds no bucket.
C12_ReopenReusesChain ==
    [][Opens =>
        /\ bucket =>
                /\ bucket' /\ store' = store /\ latest' = latest
                /\ topHash' = latest
        /\ ~bucket =>
                /\ store' = Put(store, GenesisBlock.Hash, GenesisBlock)
                /\ latest' = GenesisBlock.Hash /\ topHash' = GenesisBlock.Hash
        /\ Cardinality({h \in DOMAIN store' : store'[h].PrevBlockHash = EmptyHash}) = 1]_vars

\* a ledger re-opened on a store that holds an appended block: the head is that
\* block, not genesis
C12_Witness ==
    /\ bucket /\ open /\ panicked = ""
    /\ \A p \in Procs : last[p] = NoCall /\ it[p] = NoIter
    /\ nCommitted >= 1
    /\ latest # GenesisBlock.Hash /\ topHash = latest
    /\ latest \in DOMAIN store

\* the transactions of the chain under topHash in the order the scan meets them
Scanned == ScanOrder(WalkBlocks(store, topHash))

\* the (TXid, Voutindex) pairs named by the inputs that unlock with a of the
\* ordinary transactions met before Scanned[k]
RecordedSpent(k, a) ==
    UNION {{<<Scanned[j].In[n].TXid, Scanned[j].In[n].Voutindex>> :
                n \in {m \in 1 .. Len(Scanned[j].In) : CanUnlockOutputWith(Scanned[j].In[m], a)}} :
           j \in {i \in 1 .. k - 1 : ~IsCoinbase(Scanned[i])}}

\* the outputs of Scanned[k] payable to a and not recorded as spent when it is scanned
QualifyingAt(k, a) ==
    {i \in 0 .. Len(Scanned[k].Out) - 1 :
        /\ CanBeUnlockedWith(Scanned[k].Out[i + 1], a)
        /\ <<Scanned[k].ID, i>> \notin RecordedSpent(k, a)}

\* how often transaction id stands in the result of FindUnspendTransaction
Times(id) == Cardinality({n \in 1 .. Len(utxo.txs) : utxo.txs[n] = id})

\* C13 (duplicate qualifying outputs): in the result of FindUnspendTransaction(a) a
\* transaction of the chain stands as many times as it has outputs payable to a that
\* are not recorded as spent when it is scanned, and nothing else stands in it; a
\* transaction with two such outputs stands twice.
C13_OncePerQualifyingOutput ==
    \A a \in Addresses :
        Asked(a) =>
            /\ \A k \in 1 .. Len(Scanned) :
                    Times(Scanned[k].ID) = Cardinality(QualifyingAt(k, a))
            /\ \A n \in 1 .. Len(utxo.txs) :
                    \E k \in 1 .. Len(Scanned) : Scanned[k].ID = utxo.txs[n]

\* a transaction with two outputs to a, neither recorded as spent, stands twice in
\* the result, while another transaction of the chain has an input that unlocks with a
C13_Witness ==
    \E a \in Addresses : \E k \in 1 .. Len(Scanned) :
        /\ Asked(a)
        /\ Len(Scanned[k].Out) = 2
        /\ QualifyingAt(k, a) = {0, 1}
        /\ Times(Scanned[k].ID) = 2
        /\ \E j \in 1 .. Len(Scanned) : RecordedSpent(j, a) # {}

\* some ordinary transaction of the chain has an input that names output idx of
\* transaction id and unlocks with a
SpentOnChain(id, idx, a) ==
    \E k \in 1 .. Len(Scanned) : ~IsCoinbase(Scanned[k]) /\ Spends(Scanned[k], id, idx, a)

\* the spent record of the last call holds only what inputs of ordinary transactions name
CoinbaseAddsNoSpent ==
    \A a \in Addresses :
        Asked(a) => \A e \in utxo.spent : SpentOnChain(e[1], e[2], a)

\* C14 (coinbase exemption): FindUTXO(a) returns every output of a coinbase
\* transaction of the chain that is payable to a and that no ordinary transaction
\* spends, and the spent record of the scan holds no entry that only an input of a
\* coinbase transaction names.
C14_CoinbaseExemption ==
    /\ CoinbaseAddsNoSpent
    /\ \A a \in Addresses :
            Asked(a) =>
                \A k \in 1 .. Len(Scanned) : \A i \in 0 .. Len(Scanned[k].Out) - 1 :
                    (/\ IsCoinbase(Scanned[k])
                     /\ CanBeUnlockedWith(Scanned[k].Out[i + 1], a)
                     /\ ~SpentOnChain(Scanned[k].ID, i, a)) => Returns(Scanned[k].ID, i)

\* the same statement for the builds in which each iteration of a range loop has
\* its own variable
C14_PerIteration == perIter => C14_CoinbaseExemption

\* how often output o stands in the collection outs
CountIn(outs, o) == Cardinality({n \in 1 .. Len(outs) : outs[n] = o})

\* the two collections hold the same outputs the same number of times, in any order
SameCollection(xs, ys) ==
    \A o \in {xs[n] : n \in 1 .. Len(xs)} \cup {ys[n] : n \in 1 .. Len(ys)} :
        CountIn(xs, o) = CountIn(ys, o)

\* the last two calls were FindUTXO(a), with no AddBlock between them
AskedTwice(a) ==
    /\ Asked(a)
    /\ utxoPrev.op = "FindUTXO" /\ utxoPrev.addr = a

C16_ResultIsSet ==
    \A a \in Addresses :
        Asked(a) =>
            \A m, n \in 1 .. Len(utxo.outs) :
                m # n => <<utxo.outs[m].TX, utxo.outs[m].Idx>> # <<utxo.outs[n].TX, utxo.outs[n].Idx>>

\* the ordinary transaction Scanned[k] has an input that names its own output i and
\* unlocks with a; the output is payable to a and no transaction scanned before
\* Scanned[k] spends it
SelfSpend(k, i, a) ==
    /\ ~IsCoinbase(Scanned[k])
    /\ i < Len(Scanned[k].Out)
    /\ Spends(Scanned[k], Scanned[k].ID, i, a)
    /\ CanBeUnlockedWith(Scanned[k].Out[i + 1], a)
    /\ <<Scanned[k].ID, i>> \notin RecordedSpent(k, a)

\* C17 (scan ordering inside one transaction): a transaction's outputs are matched
\* against what the inputs of the transactions scanned before it recorded, and its
\* own inputs are recorded after that: an input of T that names T's own output i
\* does not make the scan skip that output (T is in the result, once for each
\* output that qualified), and the pair is in the spent record when the scan ends.
C17_OwnInputsAfterOutputs ==
    \A a \in Addresses :
        Asked(a) =>
            \A k \in 1 .. Len(Scanned) : \A i \in 0 .. MaxOut - 1 :
                SelfSpend(k, i, a) =>
                    /\ i \in QualifyingAt(k, a)
                    /\ Times(Scanned[k].ID) = Cardinality(QualifyingAt(k, a))
                    /\ Times(Scanned[k].ID) >= 1
                    /\ <<Scanned[k].ID, i>> \in utxo.spent

\* a transaction that names its only output payable to a in its own input is in
\* the result of the scan for a
C17_Witness ==
    \E a \in Addresses : \E k \in 1 .. Len(Scanned) : \E i \in 0 .. MaxOut - 1 :
        /\ Asked(a)
        /\ SelfSpend(k, i, a)
        /\ QualifyingAt(k, a) = {i}
        /\ Times(Scanned[k].ID) = 1

\* xs is the beginning of ys
IsPrefix(xs, ys) == Len(xs) <= Len(ys) /\ \A n \in 1 .. Len(xs) : xs[n] = ys[n]

\* C18 (iterator snapshot): the blocks an iterator has returned are, in order, the
\* first blocks of the chain from the head that was committed when Iterator()
\* created it back to genesis, whatever AddBlock steps ran in between; so it has
\* returned no block that was committed after it was created.
C18_IteratorSnapshot ==
    \A p \in Procs :
        it[p] # NoIter => IsPrefix(seen[p], ChainFrom(store, itBase[p]))

\* the same statement for the iterators created while topHash was the committed head
C18_CreatedAtCommittedHead ==
    \A p \in Procs :
        (it[p] # NoIter /\ itHead[p] = itBase[p]) =>
            IsPrefix(seen[p], ChainFrom(store, itBase[p]))

\* goroutine p holds an iterator whose cursor names no stored block
Dangling(p) == it[p] # NoIter /\ it[p] \notin DOMAIN store

\* C19 (a dangling cursor is fatal): a step from a state in which an iterator's
\* cursor names no stored block (the empty cursor left after genesis included)
\* returns no block through that iterator and leaves its cursor where it is; a
\* block is returned only from under a stored cursor; and when Next() aborts, the
\* process ends with every iterator as it was and one of them dangling.
C19_DanglingCursorFatal ==
    [][/\ \A p \in Procs :
            (open /\ Dangling(p)) =>
                \/ it'[p] = it[p] /\ seen'[p] = seen[p]
                \/ it'[p] = topHash /\ seen'[p] = <<>>
       /\ \A p \in Procs :
            (open /\ seen'[p] # seen[p] /\ seen'[p] # <<>>) =>
                /\ it[p] \in DOMAIN store
                /\ seen'[p] = Append(seen[p], it[p])
       /\ (open /\ panicked' = "Next: no block") =>
                /\ ~open'
                /\ it' = it /\ seen' = seen
                /\ \E p \in Procs : Dangling(p)]_vars

\* Next() was called once more after genesis was returned: the process has ended,
\* the cursor is still empty and the blocks returned are those of the chain
C19_Witness ==
    \E p \in Procs :
        /\ ~open /\ panicked = "Next: no block"
        /\ it[p] = EmptyHash
        /\ Len(seen[p]) >= 2
        /\ seen[p][Len(seen[p])] = GenesisBlock.Hash

====
